---------------------------- MODULE Spec2Model ----------------------------
(***************************************************************************)
(* Model of coltrane.py: the Tone class (name/value duality, enharmonic    *)
(* spelling, setLetter respelling), ToneCollection.generate, the mode,     *)
(* scale and chord catalogs, and Scale.cleanScale.                         *)
(*                                                                         *)
(* A tone name is a sequence of one-character strings (<<"F", "#">>), so   *)
(* that getLetter, name[:-1], count("#") and string concatenation are      *)
(* modelled character by character.  A Tone is a record [name, value].     *)
(***************************************************************************)
EXTENDS Integers, Sequences, FiniteSets, TLC

(* ------------------------------ bounds --------------------------------- *)

\* Tone values range over the octaves -OctavesBelow..MaxOctave.
OctavesBelow == 1
MaxOctave == 2
\* Longest string handed to the Tone constructor.
MaxStrLen == 3
\* Collections built from one key Tone.
MaxColls == 2

MinOctave == -OctavesBelow
MinValue == 12 * MinOctave
MaxValue == 12 * MaxOctave + 11
ValueRange == MinValue..MaxValue
OctaveRange == MinOctave..MaxOctave

(* --------------------------- Tone: tables ------------------------------ *)

\* Tone.letters
letters == <<"C", "D", "E", "F", "G", "A", "B">>

\* Tone.tones: name -> half steps above C
tones ==
    (<<"C">> :> 0)
    @@ (<<"C", "#">> :> 1)
    @@ (<<"D", "b">> :> 1)
    @@ (<<"D">> :> 2)
    @@ (<<"D", "#">> :> 3)
    @@ (<<"E", "b">> :> 3)
    @@ (<<"E">> :> 4)
    @@ (<<"F", "b">> :> 4)
    @@ (<<"E", "#">> :> 5)
    @@ (<<"F">> :> 5)
    @@ (<<"F", "#">> :> 6)
    @@ (<<"G", "b">> :> 6)
    @@ (<<"G">> :> 7)
    @@ (<<"G", "#">> :> 8)
    @@ (<<"A", "b">> :> 8)
    @@ (<<"A">> :> 9)
    @@ (<<"A", "#">> :> 10)
    @@ (<<"B", "b">> :> 10)
    @@ (<<"B">> :> 11)
    @@ (<<"C", "b">> :> 11)

\* Tone.values: pitch class -> tuple of spellings, in catalog order
values ==
    (0 :> << <<"C">> >>)
    @@ (1 :> << <<"C", "#">>, <<"D", "b">> >>)
    @@ (2 :> << <<"D">> >>)
    @@ (3 :> << <<"D", "#">>, <<"E", "b">> >>)
    @@ (4 :> << <<"E">>, <<"F", "b">> >>)
    @@ (5 :> << <<"E", "#">>, <<"F">> >>)
    @@ (6 :> << <<"F", "#">>, <<"G", "b">> >>)
    @@ (7 :> << <<"G">> >>)
    @@ (8 :> << <<"G", "#">>, <<"A", "b">> >>)
    @@ (9 :> << <<"A">> >>)
    @@ (10 :> << <<"A", "#">>, <<"B", "b">> >>)
    @@ (11 :> << <<"B">>, <<"C", "b">> >>)

(* --------------------------- string helpers ---------------------------- *)

\* str.isdigit() on one character, and int() of it
Digits == {"0", "1", "2", "3", "4", "5", "6", "7", "8", "9"}
DigitValue ==
    ("0" :> 0) @@ ("1" :> 1) @@ ("2" :> 2) @@ ("3" :> 3) @@ ("4" :> 4)
    @@ ("5" :> 5) @@ ("6" :> 6) @@ ("7" :> 7) @@ ("8" :> 8) @@ ("9" :> 9)

\* str.count(ch)
Count(s, ch) == Cardinality({i \in 1..Len(s) : s[i] = ch})

\* "ch" in s
Contains(s, ch) == \E i \in 1..Len(s) : s[i] = ch

\* s[:-1] taken k times (the empty string stays empty)
DropLast(s, k) == SubSeq(s, 1, Len(s) - k)

\* s + ch * k
Pad(s, ch, k) == s \o [i \in 1..k |-> ch]

\* list.index(x) for an x that occurs in the list (0-based)
IndexOf(l, x) == (CHOOSE i \in 1..Len(l) : l[i] = x /\ \A j \in 1..(i - 1) : l[j] # x) - 1

(* ------------------------- Tone: construction -------------------------- *)

\* A Tone object: its two fields.
MkTone(name, value) == [name |-> name, value |-> value]

\* The outcome of an operation that may raise: ok = FALSE means an exception
\* propagated and no object was produced.
Raised == [ok |-> FALSE, name |-> << >>, value |-> 0]
Returned(name, value) == [ok |-> TRUE, name |-> name, value |-> value]

\* Optional arguments (v = None, steps = None, intervals = None).
None == [some |-> FALSE, val |-> 0]
Some(x) == [some |-> TRUE, val |-> x]

\* Constructor argument n by dynamic type.
StrArg(s) == [kind |-> "str", s |-> s, i |-> 0, t |-> MkTone(<< >>, 0)]
IntArg(i) == [kind |-> "int", s |-> << >>, i |-> i, t |-> MkTone(<< >>, 0)]
ToneArg(t) == [kind |-> "Tone", s |-> << >>, i |-> 0, t |-> t]

\* nameToValue returning the name with its octave digit left on.
nameToValue_keepDigit(s) ==
    IF Len(s) = 0 THEN Raised
    ELSE LET hasOct == s[Len(s)] \in Digits
             octave == IF hasOct THEN DigitValue[s[Len(s)]] ELSE 0
             prefix == IF hasOct THEN DropLast(s, 1) ELSE s
         IN  IF prefix \in DOMAIN tones
                THEN Returned(s, tones[prefix] + octave * 12)
                ELSE Raised

\* Tone.nameToValue(s, clean_name=True): s[-1] raises on the empty string,
\* Tone.tones[s] raises on an unknown prefix.
nameToValue(s) ==
    IF Len(s) = 0 THEN Raised
    ELSE LET hasOct == s[Len(s)] \in Digits
             octave == IF hasOct THEN DigitValue[s[Len(s)]] ELSE 0
             prefix == IF hasOct THEN DropLast(s, 1) ELSE s
         IN  IF prefix \in DOMAIN tones
                THEN Returned(prefix, tones[prefix] + octave * 12)
                ELSE Raised

\* valueToName that ignores prefer_sharp.
valueToName_alwaysFlat(v, prefer_sharp) ==
    LET options == values[v % 12]
        idx == 1..Len(options)
        sharps == {i \in idx : Contains(options[i], "#")}
        flats == {i \in idx : ~Contains(options[i], "#") /\ Contains(options[i], "b")}
        naturals == idx \ (sharps \cup flats)
        Pick(S) == options[CHOOSE i \in S : \A j \in S : j <= i]
    IN  IF Len(options) > 1
           THEN IF naturals # {} THEN Pick(naturals) ELSE Pick(flats)
           ELSE options[1]

\* Tone.valueToName(v, prefer_sharp)
valueToName(v, prefer_sharp) ==
    LET options == values[v % 12]
        idx == 1..Len(options)
        sharps == {i \in idx : Contains(options[i], "#")}
        flats == {i \in idx : ~Contains(options[i], "#") /\ Contains(options[i], "b")}
        naturals == idx \ (sharps \cup flats)
        \* the loop keeps the last option of each kind
        Pick(S) == options[CHOOSE i \in S : \A j \in S : j <= i]
    IN  IF Len(options) > 1
           THEN IF naturals # {} THEN Pick(naturals)
                ELSE IF prefer_sharp /\ sharps # {} THEN Pick(sharps)
                ELSE Pick(flats)
           ELSE options[1]

\* Tone.__init__ testing for a given v before testing for a Tone argument.
ToneInit_overrideFirst(n, v, prefer_sharp) ==
    LET plain == IF n.kind = "Tone" THEN Returned(n.t.name, n.t.value)
                 ELSE IF n.kind = "str" THEN nameToValue(n.s)
                 ELSE Returned(valueToName(n.i, prefer_sharp), n.i)
    IN  IF v.some /\ plain.ok THEN Returned(plain.name, v.val) ELSE plain

\* Tone.__init__(n, v, prefer_sharp): the four isinstance branches, in order.
RECURSIVE ToneInit(_, _, _)
ToneInit(n, v, prefer_sharp) ==
    IF n.kind = "Tone" THEN Returned(n.t.name, n.t.value)
    ELSE IF v.some
        THEN LET inner == ToneInit(n, None, FALSE)
             IN  IF inner.ok THEN Returned(inner.name, v.val) ELSE Raised
    ELSE IF n.kind = "str" THEN nameToValue(n.s)
    ELSE Returned(valueToName(n.i, prefer_sharp), n.i)

\* The object a successful construction yields.
AsTone(r) == MkTone(r.name, r.value)

\* Tone(v) / Tone(v, prefer_sharp=...) from an integer: never raises.
fromValue(v, prefer_sharp) == AsTone(ToneInit(IntArg(v), None, prefer_sharp))

\* Tone(s) from a table name with an optional octave digit: never raises.
fromName(s) == AsTone(ToneInit(StrArg(s), None, FALSE))

(* --------------------------- Tone: methods ----------------------------- *)

\* Tone.getLetter
getLetter(t) == t.name[1]

\* setLetter wrapping a difference of -6 to +6 as well.
setLetter_wrapMinusSix(t, letter) ==
    LET lValue == nameToValue(<<letter>>).value
        raw == (t.value % 12) - (lValue % 12)
        diff == IF raw > 6 THEN (12 - raw) * (-1)
                ELSE IF raw <= -6 THEN 12 + raw
                ELSE raw
    IN  MkTone(IF diff > 0 THEN Pad(<<letter>>, "#", diff)
               ELSE IF diff < 0 THEN Pad(<<letter>>, "b", -diff)
               ELSE <<letter>>,
               t.value)

\* setLetter without the sign flip of the wrapped difference.
setLetter_noFlip(t, letter) ==
    LET lValue == nameToValue(<<letter>>).value
        raw == (t.value % 12) - (lValue % 12)
        diff == IF raw > 6 THEN 12 - raw
                ELSE IF raw < -6 THEN 12 + raw
                ELSE raw
    IN  MkTone(IF diff > 0 THEN Pad(<<letter>>, "#", diff)
               ELSE IF diff < 0 THEN Pad(<<letter>>, "b", -diff)
               ELSE <<letter>>,
               t.value)

\* Tone.setLetter: the Tone after the in-place respelling.
setLetter(t, letter) ==
    LET lValue == nameToValue(<<letter>>).value
        raw == (t.value % 12) - (lValue % 12)
        diff == IF raw > 6 THEN (12 - raw) * (-1)
                ELSE IF raw < -6 THEN 12 + raw
                ELSE raw
    IN  MkTone(IF diff > 0 THEN Pad(<<letter>>, "#", diff)
               ELSE IF diff < 0 THEN Pad(<<letter>>, "b", -diff)
               ELSE <<letter>>,
               t.value)

\* Tone.getInterval
getInterval(t, other, octmod) ==
    IF octmod THEN (other.value % 12) - (t.value % 12)
    ELSE other.value - t.value

\* Tone.getSharpened
getSharpened(t) == fromValue(t.value + 1, TRUE)

\* Tone.getFlattened
getFlattened(t) == fromValue(t.value - 1, FALSE)

\* getOctave rounding toward zero instead of flooring.
getOctave_truncate(t) ==
    IF t.value >= 0 THEN t.value \div 12 ELSE -((-t.value) \div 12)

\* Tone.getOctave
getOctave(t) == t.value \div 12

\* Tone.setOctave: the Tone after the in-place transposition.
setOctave(t, octave) ==
    LET curOctave == getOctave(t)
    IN  MkTone(t.name, t.value + 12 * (octave - curOctave))

\* Tone.getAdjacentLetters
getAdjacentLetters(t) ==
    LET i == IndexOf(letters, getLetter(t))
        n == (i + 1) % Len(letters)
        p == (i - 1) % Len(letters)
    IN  <<letters[p + 1], letters[n + 1]>>

\* Tone.getNextLetter
getNextLetter(t) == getAdjacentLetters(t)[2]

\* Tone.getPrevLetter
getPrevLetter(t) == getAdjacentLetters(t)[1]

\* Tone.copy
copy(t) == AsTone(ToneInit(ToneArg(t), None, FALSE))

\* Tone.__eq__
ToneEq(t, other) == (t.name = other.name) /\ (t.value = other.value)

\* equals as its docstring describes it: enharmonic tones are equal.
equals_enharmonic(t, other, octmod) ==
    IF octmod THEN (t.value % 12) = (other.value % 12)
    ELSE t.value = other.value

\* Tone.equals
equals(t, other, octmod) ==
    IF octmod THEN (t.value % 12) = (other.value % 12)
    ELSE ToneEq(t, other)

\* Tone.getEnharmonicTones
getEnharmonicTones(t) ==
    LET toneNames == values[t.value % 12]
    IN  [i \in 1..Len(toneNames) |-> setOctave(fromName(toneNames[i]), getOctave(t))]

\* Tone.getEnharmonic: the first listed spelling that is not equals() to t.
getEnharmonic(t) ==
    LET ets == getEnharmonicTones(t)
        diffs == {i \in 1..Len(ets) : ~equals(ets[i], t, FALSE)}
    IN  IF diffs # {} THEN ets[CHOOSE i \in diffs : \A j \in diffs : i <= j]
        ELSE copy(t)

\* getNatural lowering the value for a stripped flat as for a sharp.
getNatural_flatsDown(t) ==
    LET new == copy(t)
        ks == Count(new.name, "#")
        name1 == DropLast(new.name, ks)
        kf == Count(name1, "b")
    IN  MkTone(DropLast(name1, kf), new.value - ks - kf)

\* Tone.getNatural: strip one trailing character per "#", then one per "b"
\* counted on what is left.
getNatural(t) ==
    LET new == copy(t)
        ks == Count(new.name, "#")
        name1 == DropLast(new.name, ks)
        kf == Count(name1, "b")
    IN  MkTone(DropLast(name1, kf), new.value - ks + kf)

(* ------------------------ ToneCollection.generate ---------------------- *)

\* sum(steps[0:k])
RECURSIVE SumPrefix(_, _)
SumPrefix(steps, k) == IF k = 0 THEN 0 ELSE SumPrefix(steps, k - 1) + steps[k]

\* generate putting the root in front of the intervals as it does in front
\* of the steps.
generate_rootInBoth(root, steps, intervals) ==
    LET vals == IF steps.some
                   THEN <<root.value>>
                        \o [i \in 1..Len(steps.val) |-> root.value + SumPrefix(steps.val, i)]
                ELSE IF intervals.some
                   THEN <<root.value>>
                        \o [i \in 1..Len(intervals.val) |-> root.value + intervals.val[i]]
                ELSE << >>
    IN  [i \in 1..Len(vals) |-> copy(fromValue(vals[i], FALSE))]

\* ToneCollection.generate(root, steps, intervals): the Tones of the new
\* collection, each built by Tone(v) and copied by ToneCollection.__init__.
generate(root, steps, intervals) ==
    LET vals == IF steps.some
                   THEN <<root.value>>
                        \o [i \in 1..Len(steps.val) |-> root.value + SumPrefix(steps.val, i)]
                ELSE IF intervals.some
                   THEN [i \in 1..Len(intervals.val) |-> root.value + intervals.val[i]]
                ELSE << >>
    IN  [i \in 1..Len(vals) |-> copy(fromValue(vals[i], FALSE))]

(* ------------------------------ catalogs ------------------------------- *)

\* DiatonicMode.ionian
ionian == <<2, 2, 1, 2, 2, 2, 1>>

\* DiatonicMode.modes
modes ==
    ("ionian" :> 1)
    @@ ("major" :> 1)
    @@ ("dorian" :> 2)
    @@ ("phrygian" :> 3)
    @@ ("lydian" :> 4)
    @@ ("mixolydian" :> 5)
    @@ ("aeolian" :> 6)
    @@ ("minor" :> 6)
    @@ ("locrian" :> 7)

\* DiatonicMode.valueToSteps: ionian[v-1:] + ionian[0:v-1]
valueToSteps(v) == SubSeq(ionian, v, Len(ionian)) \o SubSeq(ionian, 1, v - 1)

\* NonDiatonicScale.scales
scales ==
    ("acoustic" :> <<2, 2, 2, 1, 2, 1, 2>>)
    @@ ("algerian" :> <<2, 1, 3, 1, 1, 3, 1, 2, 1, 2>>)
    @@ ("altered" :> <<1, 2, 1, 2, 2, 2, 2>>)
    @@ ("augmented" :> <<3, 1, 3, 1, 3, 1>>)
    @@ ("bebop dominant" :> <<2, 2, 1, 2, 2, 1, 1, 1>>)
    @@ ("blues" :> <<3, 2, 1, 1, 3, 2>>)
    @@ ("chromatic" :> <<1, 1, 1, 1, 1, 1, 1, 1, 1, 1, 1, 1>>)
    @@ ("diminished" :> <<2, 1, 2, 1, 2, 1, 2, 1>>)
    @@ ("double harmonic" :> <<1, 3, 1, 2, 1, 3, 1>>)
    @@ ("enigmatic" :> <<1, 3, 2, 2, 2, 1, 1>>)
    @@ ("flamenco" :> <<1, 3, 1, 2, 1, 3, 1>>)
    @@ ("gypsy" :> <<2, 1, 3, 1, 1, 2, 2>>)
    @@ ("half diminished" :> <<2, 1, 2, 1, 2, 2, 2>>)
    @@ ("harmonic major" :> <<2, 2, 1, 2, 1, 3, 1>>)
    @@ ("harmonic minor" :> <<2, 1, 2, 2, 1, 3, 1>>)
    @@ ("hirajoshi" :> <<4, 2, 1, 4, 1>>)
    @@ ("hungarian gypsy" :> <<2, 1, 3, 1, 1, 3, 1>>)
    @@ ("hungarian minor" :> <<2, 1, 3, 1, 1, 3, 1>>)
    @@ ("in" :> <<1, 4, 2, 1, 4>>)
    @@ ("insen" :> <<1, 4, 2, 4, 2>>)
    @@ ("istrian" :> <<1, 2, 1, 2>>)
    @@ ("iwato" :> <<1, 4, 1, 4, 2>>)
    @@ ("lydian augmented" :> <<2, 2, 2, 2, 1, 2, 1>>)
    @@ ("major locrian" :> <<2, 2, 1, 1, 2, 2, 2>>)
    @@ ("major pentatonic" :> <<2, 2, 3, 2, 3>>)
    @@ ("melodic minor" :> <<2, 1, 2, 2, 2, 2, 1>>)
    @@ ("melodic minor ascending" :> <<2, 1, 2, 2, 2, 2, 1>>)
    @@ ("melodic minor descending" :> <<2, 2, 1, 2, 2, 1, 2>>)
    @@ ("minor pentatonic" :> <<3, 2, 2, 3, 2>>)
    @@ ("neapolitan major" :> <<1, 2, 2, 2, 2, 2, 1>>)
    @@ ("neapolitan minor" :> <<1, 2, 2, 2, 1, 3, 1>>)
    @@ ("octatonic" :> <<2, 1, 2, 1, 2, 1, 2, 1>>)
    @@ ("persian" :> <<1, 3, 1, 1, 2, 3, 1>>)
    @@ ("phrygian dominant" :> <<1, 3, 1, 2, 1, 2, 2>>)
    @@ ("prometheus" :> <<2, 2, 2, 3, 1, 2>>)
    @@ ("super locrian" :> <<1, 2, 1, 2, 2, 2, 2>>)
    @@ ("tritone" :> <<1, 3, 2, 1, 3, 2>>)
    @@ ("whole tone" :> <<2, 2, 2, 2, 2, 2>>)

quality_intervals ==
    ("5" :> <<0, 7>>)
    @@ ("sus" :> <<0, 7>>)
    @@ ("" :> <<0, 4, 7>>)
    @@ ("maj" :> <<0, 4, 7>>)
    @@ ("m" :> <<0, 3, 7>>)
    @@ ("min" :> <<0, 3, 7>>)
    @@ ("dim" :> <<0, 3, 6>>)
    @@ ("aug" :> <<0, 4, 8>>)
    @@ ("sus2" :> <<0, 2, 7>>)
    @@ ("sus4" :> <<0, 5, 7>>)
    @@ ("6" :> <<0, 4, 7, 9>>)
    @@ ("7" :> <<0, 4, 7, 10>>)
    @@ ("7-5" :> <<0, 4, 6, 10>>)
    @@ ("7b5" :> <<0, 4, 6, 10>>)
    @@ ("7+5" :> <<0, 4, 8, 10>>)
    @@ ("7#5" :> <<0, 4, 8, 10>>)
    @@ ("7sus4" :> <<0, 5, 7, 10>>)
    @@ ("m6" :> <<0, 3, 7, 9>>)
    @@ ("m7" :> <<0, 3, 7, 10>>)
    @@ ("m7-5" :> <<0, 3, 6, 10>>)
    @@ ("dim6" :> <<0, 3, 6, 9>>)
    @@ ("M7" :> <<0, 4, 7, 11>>)
    @@ ("maj7" :> <<0, 4, 7, 11>>)
    @@ ("M7+5" :> <<0, 4, 8, 11>>)
    @@ ("mM7" :> <<0, 3, 7, 11>>)
    @@ ("add9" :> <<0, 4, 7, 14>>)
    @@ ("madd9" :> <<0, 3, 7, 14>>)
    @@ ("2" :> <<0, 4, 7, 14>>)
    @@ ("add11" :> <<0, 4, 7, 17>>)
    @@ ("4" :> <<0, 4, 7, 17>>)
    @@ ("m69" :> <<0, 3, 7, 9, 14>>)
    @@ ("69" :> <<0, 4, 7, 9, 14>>)
    @@ ("9" :> <<0, 4, 7, 10, 14>>)
    @@ ("m9" :> <<0, 3, 7, 10, 14>>)
    @@ ("M9" :> <<0, 4, 7, 11, 14>>)
    @@ ("maj9" :> <<0, 4, 7, 11, 14>>)
    @@ ("9sus4" :> <<0, 5, 7, 10, 14>>)
    @@ ("7-9" :> <<0, 4, 7, 10, 13>>)
    @@ ("7b9" :> <<0, 4, 7, 10, 13>>)
    @@ ("7+9" :> <<0, 4, 7, 10, 15>>)
    @@ ("7#9" :> <<0, 4, 7, 10, 15>>)
    @@ ("9-5" :> <<0, 4, 6, 10, 14>>)
    @@ ("9b5" :> <<0, 4, 6, 10, 14>>)
    @@ ("9+5" :> <<0, 4, 8, 10, 14>>)
    @@ ("9#5" :> <<0, 4, 8, 10, 14>>)
    @@ ("7#9b5" :> <<0, 4, 6, 10, 15>>)
    @@ ("7#9#5" :> <<0, 4, 8, 10, 15>>)
    @@ ("7b9b5" :> <<0, 4, 6, 10, 13>>)
    @@ ("7b9#5" :> <<0, 4, 8, 10, 13>>)
    @@ ("11" :> <<0, 7, 10, 14, 17>>)
    @@ ("7+11" :> <<0, 4, 7, 10, 18>>)
    @@ ("7#11" :> <<0, 4, 7, 10, 18>>)
    @@ ("7b9#9" :> <<0, 4, 7, 10, 13, 15>>)
    @@ ("7b9#11" :> <<0, 4, 7, 10, 13, 18>>)
    @@ ("7#9#11" :> <<0, 4, 7, 10, 15, 18>>)
    @@ ("7-13" :> <<0, 4, 7, 10, 20>>)
    @@ ("7b13" :> <<0, 4, 7, 10, 20>>)
    @@ ("7b9b13" :> <<0, 4, 7, 10, 13, 17, 20>>)
    @@ ("9+11" :> <<0, 4, 7, 10, 14, 18>>)
    @@ ("9#11" :> <<0, 4, 7, 10, 14, 18>>)
    @@ ("13" :> <<0, 4, 7, 10, 14, 21>>)
    @@ ("13-9" :> <<0, 4, 7, 10, 13, 21>>)
    @@ ("13b9" :> <<0, 4, 7, 10, 13, 21>>)
    @@ ("13+9" :> <<0, 4, 7, 10, 15, 21>>)
    @@ ("13#9" :> <<0, 4, 7, 10, 15, 21>>)
    @@ ("13+11" :> <<0, 4, 7, 10, 18, 21>>)
    @@ ("13#11" :> <<0, 4, 7, 10, 18, 21>>)

(* --------------------------- Scale and Chord --------------------------- *)

\* The outcome of building a collection: its tones, or an exception.
RaisedColl == [ok |-> FALSE, tones |-> << >>]
ReturnedColl(ts) == [ok |-> TRUE, tones |-> ts]

\* The loop of Scale.cleanScale over i = from-1 .. len(tones)-2: tones[i+1]
\* is respelled in place from the (already respelled) tones[i].
RECURSIVE AdvanceLetters(_, _)
AdvanceLetters(ts, i) ==
    IF i >= Len(ts) THEN ts
    ELSE AdvanceLetters(
            IF getLetter(ts[i + 1]) # getNextLetter(ts[i])
               THEN [ts EXCEPT ![i + 1] = setLetter(ts[i + 1], getNextLetter(ts[i]))]
               ELSE ts,
            i + 1)

\* cleanScale testing the length against the number of steps, 7.
cleanScale_len7(ts, root) ==
    LET root1 == setOctave(copy(root), getOctave(ts[1]))
        first == IF ~ToneEq(ts[1], root1)
                    THEN [ts EXCEPT ![1] = getEnharmonic(ts[1])]
                    ELSE ts
    IN  IF Len(first) = 7 THEN AdvanceLetters(first, 1) ELSE first

\* Scale.cleanScale(tones, root) with a root supplied.  "len(tones) is 8"
\* compares a small int by identity, which CPython evaluates as equality.
cleanScale(ts, root) ==
    LET root1 == setOctave(copy(root), getOctave(ts[1]))
        first == IF ~ToneEq(ts[1], root1)
                    THEN [ts EXCEPT ![1] = getEnharmonic(ts[1])]
                    ELSE ts
    IN  IF Len(first) = 8 THEN AdvanceLetters(first, 1) ELSE first

\* Scale.__init__(key, steps, intervals)
Scale(key, steps, intervals) == cleanScale(generate(key, steps, intervals), key)

\* DiatonicScale.__init__(key, mode) for a Tone key and a mode name;
\* DiatonicMode.modeToValue raises on an unknown name.
DiatonicScale(key, mode) ==
    IF mode \in DOMAIN modes
       THEN ReturnedColl(Scale(key, Some(valueToSteps(modes[mode])), None))
       ELSE RaisedColl

\* NonDiatonicScale.__init__(key, scaleName) for a Tone key
NonDiatonicScale(key, scaleName) ==
    IF scaleName \in DOMAIN scales
       THEN ReturnedColl(Scale(key, Some(scales[scaleName]), None))
       ELSE RaisedColl

\* Scale.smartParse(key, scaleName)
smartParse(key, scaleName) ==
    IF scaleName \in DOMAIN modes THEN DiatonicScale(key, scaleName)
    ELSE IF scaleName \in DOMAIN scales THEN NonDiatonicScale(key, scaleName)
    ELSE RaisedColl

\* Chord.__init__(key, quality): no cleanScale call.
Chord(key, quality) ==
    IF quality \notin DOMAIN quality_intervals THEN RaisedColl
    ELSE LET key1 == copy(key)
             intervals == quality_intervals[quality]
         IN  ReturnedColl(generate(key1, None, Some(intervals)))

(* ------------------------- objects by identity ------------------------ *)

\* The methods again, on a heap: objs is the sequence of all Tone objects
\* (an object's identity is its index), self, root and key are identities.
\* Each operator gives the heap after the call and the identities returned.
\* The fields written are computed by the operators above.

\* Tone(...): a new object with the fields t.
ToneNewOn(objs, t) == [objs |-> Append(objs, t), ret |-> <<Len(objs) + 1>>]

\* Tone.copy
copyOn(objs, self) == ToneNewOn(objs, copy(objs[self]))

\* Tone.getSharpened
getSharpenedOn(objs, self) == ToneNewOn(objs, getSharpened(objs[self]))

\* Tone.getFlattened
getFlattenedOn(objs, self) == ToneNewOn(objs, getFlattened(objs[self]))

\* Tone.setOctave: writes self.value
setOctaveOn(objs, self, octave) ==
    [objs |-> [objs EXCEPT ![self] = setOctave(objs[self], octave)], ret |-> << >>]

\* Tone.setLetter: writes self.name
setLetterOn(objs, self, letter) ==
    [objs |-> [objs EXCEPT ![self] = setLetter(objs[self], letter)], ret |-> << >>]

\* Tone.getEnharmonicTones: new = self.copy() is made and dropped, one
\* Tone(n) is made per listed name and setOctave is called on each of them.
getEnharmonicTonesOn(objs, self) ==
    LET toneNames == values[objs[self].value % 12]
    IN  [objs |-> copyOn(objs, self).objs
                  \o [i \in 1..Len(toneNames) |->
                        setOctave(fromName(toneNames[i]), getOctave(objs[self]))],
         ret |-> [i \in 1..Len(toneNames) |-> Len(objs) + 1 + i]]

\* What getEnharmonic returns once getEnharmonicTones has left the heap and
\* the list e: the first listed object that is not equals() to self, or a
\* copy of self.
FirstOtherOn(e, self) ==
    LET diffs == {i \in 1..Len(e.ret) : ~equals(e.objs[e.ret[i]], e.objs[self], FALSE)}
    IN  IF diffs # {}
           THEN [objs |-> e.objs,
                 ret |-> <<e.ret[CHOOSE i \in diffs : \A j \in diffs : i <= j]>>]
           ELSE copyOn(e.objs, self)

\* Tone.getEnharmonic (e \in {...} names the outcome of the inner call).
getEnharmonicOn(objs, self) ==
    CHOOSE out \in {FirstOtherOn(e, self) : e \in {getEnharmonicTonesOn(objs, self)}} : TRUE

\* getNatural stripping the accidentals of self instead of a copy.
getNaturalOn_inPlace(objs, self) ==
    [objs |-> [objs EXCEPT ![self] = getNatural(objs[self])], ret |-> <<self>>]

\* Tone.getNatural: new = self.copy(), then new.name and new.value are
\* written.
getNaturalOn(objs, self) ==
    LET c == copyOn(objs, self)
        new == c.ret[1]
    IN  [objs |-> [c.objs EXCEPT ![new] = getNatural(c.objs[new])], ret |-> <<new>>]

\* ToneCollection.generate: one Tone(v) per value, then ToneCollection's
\* constructor copies each of them into its own list.
generateOn(objs, root, steps, intervals) ==
    LET ts == generate(objs[root], steps, intervals)
    IN  [objs |-> objs \o ts \o ts,
         ret |-> [i \in 1..Len(ts) |-> Len(objs) + Len(ts) + i]]

\* One pass of the loop of Scale.cleanScale: setLetter is called on the
\* list's own object tones[i+1].
RespellNextOn(objs, ids, i) ==
    IF getLetter(objs[ids[i + 1]]) # getNextLetter(objs[ids[i]])
       THEN setLetterOn(objs, ids[i + 1], getNextLetter(objs[ids[i]])).objs
       ELSE objs

\* The loop of Scale.cleanScale over i = from-1 .. len(tones)-2.  (The heap
\* is bound by o \in {objs} so that each pass starts from the heap the pass
\* before it left.)
RECURSIVE AdvanceLettersOn(_, _, _)
AdvanceLettersOn(objs, ids, i) ==
    IF i >= Len(ids) THEN objs
    ELSE CHOOSE out \in {AdvanceLettersOn(RespellNextOn(o, ids, i), ids, i + 1) :
                            o \in {objs}} : TRUE

\* The end of Scale.cleanScale once the first tone is settled: fix is the
\* heap and the object that is now tones[0].
RespellOn(fix, ids) ==
    LET ids1 == [ids EXCEPT ![1] = fix.ret[1]]
    IN  [objs |-> IF Len(ids1) = 8 THEN AdvanceLettersOn(fix.objs, ids1, 1) ELSE fix.objs,
         ret |-> ids1]

\* Scale.cleanScale: root = Tone(root) is a new object, setOctave is called
\* on it, tones[0] is replaced by the object getEnharmonic returns.
cleanScaleOn(objs, ids, root) ==
    LET r == ToneNewOn(objs, copy(objs[root]))
        root1 == r.ret[1]
        o1 == setOctaveOn(r.objs, root1, getOctave(r.objs[ids[1]])).objs
    IN  CHOOSE out \in
            {RespellOn(fix, ids) :
                fix \in {IF ~ToneEq(o1[ids[1]], o1[root1])
                            THEN getEnharmonicOn(o1, ids[1])
                            ELSE [objs |-> o1, ret |-> <<ids[1]>>]}} : TRUE

\* Scale.__init__
ScaleOn(objs, key, steps, intervals) ==
    CHOOSE out \in {cleanScaleOn(g.objs, g.ret, key) :
                        g \in {generateOn(objs, key, steps, intervals)}} : TRUE

\* Scale.smartParse on a Tone key: the heap and the collection's objects,
\* ok = FALSE when the name is in neither catalog.
smartParseOn(objs, key, scaleName) ==
    IF scaleName \in DOMAIN modes
       THEN [ok |-> TRUE] @@ ScaleOn(objs, key, Some(valueToSteps(modes[scaleName])), None)
    ELSE IF scaleName \in DOMAIN scales
       THEN [ok |-> TRUE] @@ ScaleOn(objs, key, Some(scales[scaleName]), None)
    ELSE [ok |-> FALSE, objs |-> objs, ret |-> << >>]

\* Chord.__init__: key = Tone(key) is a new object.
ChordOn(objs, key, quality) ==
    IF quality \notin DOMAIN quality_intervals
       THEN [ok |-> FALSE, objs |-> objs, ret |-> << >>]
       ELSE LET k == ToneNewOn(objs, copy(objs[key]))
            IN  [ok |-> TRUE]
                @@ generateOn(k.objs, k.ret[1], None, Some(quality_intervals[quality]))

(* ----------------------------- the state ------------------------------- *)

VARIABLES
    tone,   \* the Tone the last operation was called on (after the call),
            \* or the Tone the last construction produced
    res,    \* the Tones the last operation returned, in order
    coll,   \* the tones of the collection the last Scale/Chord call built
    last,   \* the last call: its name, receiver before the call, arguments,
            \* whether it raised, and a returned int or bool
    inp,    \* the arguments the caller passes to a constructor
    heap    \* the Tone objects by identity: objs[i] holds the fields of
            \* object i (object 1 is the caller's Tone), rets the objects
            \* the last call returned, colls the objects of each collection
            \* built so far

vars == <<tone, res, coll, last, inp, heap>>

\* No object is tracked by identity.
NoHeap == [objs |-> << >>, rets |-> << >>, colls |-> << >>]

\* No object: a construction that raised produced none.
NoTone == MkTone(<< >>, 0)

Idle ==
    [op |-> "init", self |-> NoTone, other |-> NoTone, letter |-> "",
     num |-> 0, flag |-> FALSE, s |-> << >>, err |-> FALSE,
     ret |-> 0, holds |-> FALSE, rev |-> FALSE, eq |-> FALSE]

\* Constructor arguments: which form is called, the string, int, Tone and
\* prefer_sharp passed, whether v is passed and its value, or the scale name
\* or chord quality.
NoInput ==
    [form |-> "none", s |-> << >>, i |-> 0, t |-> NoTone, p |-> FALSE,
     given |-> FALSE, v |-> 0, pat |-> ""]

Range(f) == {f[i] : i \in DOMAIN f}

\* The Tones the caller holds a reference to.
Live == ({tone} \cup Range(res)) \ {NoTone}

(* ------------------------------ inputs --------------------------------- *)

TableNames == DOMAIN tones

\* Octave digits that keep the value inside ValueRange.
OctDigits == {d \in Digits : DigitValue[d] <= MaxOctave}

\* Table names with an optional octave digit.
NameInputs == TableNames \cup {Append(n, d) : n \in TableNames, d \in OctDigits}

\* Characters of the strings tried on the constructor besides the table
\* names: two letters, both accidental signs, two digits and a lower-case
\* letter.
Alphabet == {"C", "F", "#", "b", "0", "1", "c"}

\* Table names with an optional octave digit, and every string of at most
\* k characters of Alphabet (the empty string included).
StrInputs(k) == NameInputs \cup UNION {[1..n -> Alphabet] : n \in 0..k}

\* Values passed as the override v.
OverrideValues == {MinValue, -1, 0, 6, 13, MaxValue}

ScaleInputs == DOMAIN modes \cup DOMAIN scales \cup {"bogus"}

QualityInputs == DOMAIN quality_intervals \cup {"m7b9", "m7b9#5"}

\* A Tone built by Tone(name), Tone(value) or Tone(value, prefer_sharp).
InitTones ==
    {fromName(s) : s \in NameInputs}
    \cup {fromValue(v, p) : v \in ValueRange, p \in BOOLEAN}

\* The calls of the constructor: Tone(i, prefer_sharp=p), Tone(s),
\* Tone(s, v), Tone(i, v), Tone(t) and Tone(t, v).
CtorInputs ==
    {[NoInput EXCEPT !.form = "value", !.i = i, !.p = p] :
        i \in ValueRange, p \in BOOLEAN}
    \cup {[NoInput EXCEPT !.form = "name", !.s = s] : s \in StrInputs(MaxStrLen)}
    \cup {[NoInput EXCEPT !.form = "nameValue", !.s = s, !.given = TRUE, !.v = v] :
        s \in StrInputs(MaxStrLen - 1), v \in OverrideValues}
    \cup {[NoInput EXCEPT !.form = "intValue", !.i = i, !.given = TRUE, !.v = v] :
        i \in ValueRange, v \in OverrideValues}
    \cup {[NoInput EXCEPT !.form = "tone", !.t = t] : t \in InitTones}
    \cup {[NoInput EXCEPT !.form = "tone", !.t = t, !.given = TRUE, !.v = v] :
        t \in InitTones, v \in OverrideValues}

\* The calls that build a collection from a key Tone.
CollInputs ==
    {[NoInput EXCEPT !.form = "scale", !.t = t, !.pat = n] :
        t \in InitTones, n \in ScaleInputs}
    \cup {[NoInput EXCEPT !.form = "chord", !.t = t, !.pat = q] :
        t \in InitTones, q \in QualityInputs}

(* ------------------------------- Init ---------------------------------- *)

\* The caller has built one Tone, by Tone(v, prefer_sharp=p) or by Tone(s)
\* for a table name s with an optional octave digit.
Init ==
    /\ \/ \E v \in ValueRange, p \in BOOLEAN :
            /\ tone = fromValue(v, p)
            /\ last = [Idle EXCEPT !.op = "value", !.num = v, !.flag = p]
       \/ \E s \in NameInputs :
            /\ tone = fromName(s)
            /\ last = [Idle EXCEPT !.op = "name", !.s = s]
    /\ res = << >>
    /\ coll = << >>
    /\ inp = NoInput
    /\ heap = NoHeap

\* The caller is about to construct a Tone.
InitCtor ==
    /\ tone = NoTone
    /\ res = << >>
    /\ coll = << >>
    /\ last = Idle
    /\ inp \in CtorInputs
    /\ heap = NoHeap

\* The caller holds a key Tone and is about to build a Scale or a Chord.
InitColl ==
    /\ inp \in CollInputs
    /\ tone = inp.t
    /\ res = << >>
    /\ coll = << >>
    /\ last = Idle
    /\ heap = NoHeap

(* ---------------------- actions: Tone construction --------------------- *)

\* tone = Tone(n, v, prefer_sharp) on the arguments of inp; on an exception
\* no Tone is produced.
Construct(form, n) ==
    LET r == ToneInit(n, IF inp.given THEN Some(inp.v) ELSE None, inp.p)
    IN  /\ inp.form = form
        /\ tone' = IF r.ok THEN AsTone(r) ELSE NoTone
        /\ res' = << >>
        /\ last' = [Idle EXCEPT !.op = form, !.err = ~r.ok]
        /\ UNCHANGED <<coll, inp, heap>>

NewFromValue == Construct("value", IntArg(inp.i))

NewFromName == Construct("name", StrArg(inp.s))

NewFromNameValue == Construct("nameValue", StrArg(inp.s))

NewFromIntValue == Construct("intValue", IntArg(inp.i))

NewFromTone == Construct("tone", ToneArg(inp.t))

(* ------------------------ actions: Tone methods ------------------------ *)

GetSharpened ==
    \E t \in Live :
        /\ t.value + 1 \in ValueRange
        /\ tone' = t
        /\ res' = <<getSharpened(t)>>
        /\ last' = [Idle EXCEPT !.op = "getSharpened", !.self = t]
        /\ UNCHANGED <<coll, inp, heap>>

GetFlattened ==
    \E t \in Live :
        /\ t.value - 1 \in ValueRange
        /\ tone' = t
        /\ res' = <<getFlattened(t)>>
        /\ last' = [Idle EXCEPT !.op = "getFlattened", !.self = t]
        /\ UNCHANGED <<coll, inp, heap>>

GetOctave ==
    \E t \in Live :
        /\ tone' = t
        /\ res' = << >>
        /\ last' = [Idle EXCEPT !.op = "getOctave", !.self = t,
                                !.ret = getOctave(t)]
        /\ UNCHANGED <<coll, inp, heap>>

SetOctave ==
    \E t \in Live, n \in OctaveRange :
        /\ tone' = setOctave(t, n)
        /\ res' = << >>
        /\ last' = [Idle EXCEPT !.op = "setOctave", !.self = t, !.num = n]
        /\ UNCHANGED <<coll, inp, heap>>

SetLetter ==
    \E t \in Live, l \in Range(letters) :
        /\ tone' = setLetter(t, l)
        /\ res' = << >>
        /\ last' = [Idle EXCEPT !.op = "setLetter", !.self = t, !.letter = l]
        /\ UNCHANGED <<coll, inp, heap>>

GetNatural ==
    \E t \in Live :
        /\ getNatural(t).value \in ValueRange
        /\ tone' = t
        /\ res' = <<getNatural(t)>>
        /\ last' = [Idle EXCEPT !.op = "getNatural", !.self = t]
        /\ UNCHANGED <<coll, inp, heap>>

GetEnharmonic ==
    \E t \in Live :
        /\ tone' = t
        /\ res' = <<getEnharmonic(t)>>
        /\ last' = [Idle EXCEPT !.op = "getEnharmonic", !.self = t]
        /\ UNCHANGED <<coll, inp, heap>>

GetEnharmonicTones ==
    \E t \in Live :
        /\ tone' = t
        /\ res' = getEnharmonicTones(t)
        /\ last' = [Idle EXCEPT !.op = "getEnharmonicTones", !.self = t]
        /\ UNCHANGED <<coll, inp, heap>>

Copy ==
    \E t \in Live :
        /\ tone' = t
        /\ res' = <<copy(t)>>
        /\ last' = [Idle EXCEPT !.op = "copy", !.self = t]
        /\ UNCHANGED <<coll, inp, heap>>

\* t.getInterval(o, octmod) between two Tones the caller holds
GetInterval ==
    \E t \in Live, o \in Live, octmod \in BOOLEAN :
        /\ tone' = t
        /\ res' = <<o>>
        /\ last' = [Idle EXCEPT !.op = "getInterval", !.self = t, !.other = o,
                                !.flag = octmod, !.ret = getInterval(t, o, octmod)]
        /\ UNCHANGED <<coll, inp, heap>>

\* t.equals(o, octmod) between two Tones the caller holds, together with
\* o.equals(t, octmod) and t == o
Equals ==
    \E t \in Live, o \in Live, octmod \in BOOLEAN :
        /\ tone' = t
        /\ res' = <<o>>
        /\ last' = [Idle EXCEPT !.op = "equals", !.self = t, !.other = o,
                                !.flag = octmod,
                                !.holds = equals(t, o, octmod),
                                !.rev = equals(o, t, octmod),
                                !.eq = ToneEq(t, o)]
        /\ UNCHANGED <<coll, inp, heap>>

(* ---------------------- actions: Scale and Chord ----------------------- *)

\* coll = Scale.smartParse(key, scaleName).tones
BuildScale ==
    LET r == smartParse(tone, inp.pat)
    IN  /\ inp.form = "scale"
        /\ coll' = r.tones
        /\ last' = [Idle EXCEPT !.op = "Scale", !.self = tone, !.err = ~r.ok]
        /\ UNCHANGED <<tone, res, inp, heap>>

\* coll = ToneCollection.generate(key, steps=...).tones for the steps of a
\* catalog scale, or generate(key, intervals=...).tones for the intervals of
\* a catalog chord quality
Generate ==
    /\ \/ /\ inp.form = "scale"
          /\ inp.pat \in DOMAIN modes
          /\ coll' = generate(tone, Some(valueToSteps(modes[inp.pat])), None)
       \/ /\ inp.form = "scale"
          /\ inp.pat \in DOMAIN scales
          /\ coll' = generate(tone, Some(scales[inp.pat]), None)
       \/ /\ inp.form = "chord"
          /\ inp.pat \in DOMAIN quality_intervals
          /\ coll' = generate(tone, None, Some(quality_intervals[inp.pat]))
    /\ last' = [Idle EXCEPT !.op = "generate", !.self = tone]
    /\ UNCHANGED <<tone, res, inp, heap>>

\* coll = Chord(key, quality).tones
BuildChord ==
    LET r == Chord(tone, inp.pat)
    IN  /\ inp.form = "chord"
        /\ coll' = r.tones
        /\ last' = [Idle EXCEPT !.op = "Chord", !.self = tone, !.err = ~r.ok]
        /\ UNCHANGED <<tone, res, inp, heap>>

(* ------------------- actions: objects by identity --------------------- *)

\* The caller holds one Tone, object 1, and is about to call its methods or
\* to build collections from it.
InitHeap ==
    /\ \/ inp = [NoInput EXCEPT !.form = "method"] /\ tone \in InitTones
       \/ inp \in CollInputs /\ tone = inp.t
    /\ res = << >>
    /\ coll = << >>
    /\ last = Idle
    /\ heap = [NoHeap EXCEPT !.objs = <<tone>>]

\* The heap when a method is called: the caller has kept its own Tone only.
Caller == <<heap.objs[1]>>

\* A method call on object 1 whose outcome on the heap is r.
Call(name, r, letter, num) ==
    /\ inp.form = "method"
    /\ heap' = [objs |-> r.objs, rets |-> r.ret, colls |-> << >>]
    /\ tone' = r.objs[1]
    /\ res' = [i \in 1..Len(r.ret) |-> r.objs[r.ret[i]]]
    /\ last' = [Idle EXCEPT !.op = name, !.self = tone, !.letter = letter, !.num = num]
    /\ UNCHANGED <<coll, inp>>

CallGetSharpened == Call("getSharpened", getSharpenedOn(Caller, 1), "", 0)

CallGetFlattened == Call("getFlattened", getFlattenedOn(Caller, 1), "", 0)

CallGetNatural == Call("getNatural", getNaturalOn(Caller, 1), "", 0)

CallGetEnharmonic == Call("getEnharmonic", getEnharmonicOn(Caller, 1), "", 0)

CallGetEnharmonicTones == Call("getEnharmonicTones", getEnharmonicTonesOn(Caller, 1), "", 0)

CallCopy == Call("copy", copyOn(Caller, 1), "", 0)

\* getInterval and equals, here of the Tone with itself, write nothing.
CallGetInterval ==
    Call("getInterval", [objs |-> Caller, ret |-> << >>], "",
         getInterval(Caller[1], Caller[1], FALSE))

CallEquals ==
    /\ equals(Caller[1], Caller[1], FALSE)
    /\ Call("equals", [objs |-> Caller, ret |-> << >>], "", 0)

CallSetOctave ==
    \E n \in OctaveRange : Call("setOctave", setOctaveOn(Caller, 1, n), "", n)

CallSetLetter ==
    \E l \in Range(letters) : Call("setLetter", setLetterOn(Caller, 1, l), l, 0)

\* One more collection built from the key, object 1; the collections built
\* before stay on the heap.
Build(name, r) ==
    /\ Len(heap.colls) < MaxColls
    /\ heap' = [objs |-> r.objs, rets |-> << >>,
                colls |-> IF r.ok THEN Append(heap.colls, r.ret) ELSE heap.colls]
    /\ tone' = r.objs[1]
    /\ coll' = [i \in 1..Len(r.ret) |-> r.objs[r.ret[i]]]
    /\ last' = [Idle EXCEPT !.op = name, !.self = tone, !.err = ~r.ok]
    /\ UNCHANGED <<res, inp>>

CallScale ==
    /\ inp.form = "scale"
    /\ \E r \in {smartParseOn(heap.objs, 1, inp.pat)} : Build("Scale", r)

CallChord ==
    /\ inp.form = "chord"
    /\ \E r \in {ChordOn(heap.objs, 1, inp.pat)} : Build("Chord", r)

(* --------------------------- specifications ---------------------------- *)

\* A Tone built by name or value and everything the Tone methods make of it.
Next ==
    \/ GetSharpened
    \/ GetFlattened
    \/ GetOctave
    \/ SetOctave
    \/ SetLetter
    \/ GetNatural
    \/ GetEnharmonic
    \/ GetEnharmonicTones
    \/ Copy
    \/ GetInterval
    \/ Equals

Spec == Init /\ [][Next]_vars

\* The constructor on every kind of argument.
NextCtor ==
    \/ NewFromValue
    \/ NewFromName
    \/ NewFromNameValue
    \/ NewFromIntValue
    \/ NewFromTone

SpecCtor == InitCtor /\ [][NextCtor]_vars

\* Scale and Chord construction from a key Tone.
NextColl ==
    \/ BuildScale
    \/ BuildChord
    \/ Generate

SpecColl == InitColl /\ [][NextColl]_vars

\* Tone methods and collection building with every Tone an object of its
\* own identity.
NextHeap ==
    \/ CallGetSharpened
    \/ CallGetFlattened
    \/ CallGetNatural
    \/ CallGetEnharmonic
    \/ CallGetEnharmonicTones
    \/ CallCopy
    \/ CallGetInterval
    \/ CallEquals
    \/ CallSetOctave
    \/ CallSetLetter
    \/ CallScale
    \/ CallChord

SpecHeap == InitHeap /\ [][NextHeap]_vars

(* ------------------------ vocabulary of the claims --------------------- *)

\* Pitch class of each natural letter.
NaturalPc ==
    ("C" :> 0) @@ ("D" :> 2) @@ ("E" :> 4) @@ ("F" :> 5)
    @@ ("G" :> 7) @@ ("A" :> 9) @@ ("B" :> 11)

\* The next letter of the cyclic alphabet C D E F G A B.
NextInAlphabet ==
    ("C" :> "D") @@ ("D" :> "E") @@ ("E" :> "F") @@ ("F" :> "G")
    @@ ("G" :> "A") @@ ("A" :> "B") @@ ("B" :> "C")

\* Letter plus sharps minus flats, mod 12.
PitchClassOfName(name) ==
    (NaturalPc[name[1]] + Count(name, "#") - Count(name, "b")) % 12

WellSpelled(t) ==
    /\ PitchClassOfName(t.name) = t.value % 12
    /\ ~(Contains(t.name, "#") /\ Contains(t.name, "b"))

\* The spelling of a pitch class: natural if there is one, else sharp or flat.
ExpectedSpelling(pc, preferSharp) ==
    CASE pc = 0 -> <<"C">>
      [] pc = 1 -> IF preferSharp THEN <<"C", "#">> ELSE <<"D", "b">>
      [] pc = 2 -> <<"D">>
      [] pc = 3 -> IF preferSharp THEN <<"D", "#">> ELSE <<"E", "b">>
      [] pc = 4 -> <<"E">>
      [] pc = 5 -> <<"F">>
      [] pc = 6 -> IF preferSharp THEN <<"F", "#">> ELSE <<"G", "b">>
      [] pc = 7 -> <<"G">>
      [] pc = 8 -> IF preferSharp THEN <<"G", "#">> ELSE <<"A", "b">>
      [] pc = 9 -> <<"A">>
      [] pc = 10 -> IF preferSharp THEN <<"A", "#">> ELSE <<"B", "b">>
      [] pc = 11 -> <<"B">>

\* The step pattern a scale name stands for.
StepsOf(pat) ==
    IF pat \in DOMAIN modes THEN valueToSteps(modes[pat]) ELSE scales[pat]

Names(ts) == [i \in 1..Len(ts) |-> ts[i].name]

BuiltScale == last.op = "Scale" /\ ~last.err /\ last.self.name \in TableNames

BuiltChord == last.op = "Chord" /\ ~last.err /\ last.self.name \in TableNames

(* ------------------------------- claims -------------------------------- *)

\* C1: every Tone the caller holds, after any sequence of getSharpened,
\* getFlattened, setOctave, setLetter, getNatural, getEnharmonic,
\* getEnharmonicTones and copy on Tones built by name or by value, has a
\* name whose letter plus sharps minus flats is its value mod 12, and never
\* both a sharp and a flat.
C1_ToneInvariant == \A t \in {tone} \cup Range(res) : WellSpelled(t)

C1_Witness ==
    /\ last.op = "setLetter"
    /\ Count(tone.name, "b") = 6
    /\ last.self.name = <<"D", "b">>

\* C2: a scale of 7 steps on a table-name root has 8 tones, each tone's
\* letter is the next letter after its predecessor's, every value is the
\* root's value plus the prefix sum of the steps, F# major is
\* F# G# A# B C# D# E# F# and C major is C D E F G A B C.
C2_LetterSequence ==
    (BuiltScale /\ Len(StepsOf(inp.pat)) = 7) =>
        /\ Len(coll) = 8
        /\ \A i \in 1..7 : coll[i + 1].name[1] = NextInAlphabet[coll[i].name[1]]
        /\ \A i \in 1..8 :
              coll[i].value = last.self.value + SumPrefix(StepsOf(inp.pat), i - 1)
        /\ (last.self.name = <<"F", "#">> /\ inp.pat = "major") =>
              Names(coll) = << <<"F", "#">>, <<"G", "#">>, <<"A", "#">>, <<"B">>,
                               <<"C", "#">>, <<"D", "#">>, <<"E", "#">>, <<"F", "#">> >>
        /\ (last.self.name = <<"C">> /\ inp.pat = "major") =>
              Names(coll) = << <<"C">>, <<"D">>, <<"E">>, <<"F">>,
                               <<"G">>, <<"A">>, <<"B">>, <<"C">> >>

C2_Witness ==
    /\ BuiltScale
    /\ inp.pat = "major"
    /\ last.self.name = <<"F", "#">>
    /\ Len(coll) = 8
    /\ coll[7].name = <<"E", "#">>

\* C3: the first tone of a scale of any pattern on a table-name root has
\* exactly the root's name and value.
C3_FirstToneIsRoot == BuiltScale => coll[1] = last.self

C3_Witness ==
    /\ BuiltScale
    /\ last.self.name = <<"C", "b">>
    /\ Len(coll) = 6
    /\ coll[1].name = <<"C", "b">>

\* C4: equals is reflexive and symmetric; with octmod it holds exactly when
\* the values agree mod 12, and without octmod exactly when the values
\* agree, whatever the spelling; == requires name and value to match.
C4_EqualsIsEnharmonic ==
    last.op = "equals" =>
        /\ last.holds <=> IF last.flag
                             THEN last.self.value % 12 = last.other.value % 12
                             ELSE last.self.value = last.other.value
        /\ last.rev <=> last.holds
        /\ last.self = last.other => last.holds
        /\ last.eq <=> (last.self.name = last.other.name
                        /\ last.self.value = last.other.value)

\* C5: Chord on root E with quality "m7b9" succeeds with five tones at
\* E.value + 0, 3, 7, 10, 13.
C5_ChordEm7b9 ==
    (last.op = "Chord" /\ inp.pat = "m7b9" /\ last.self.name = <<"E">>) =>
        /\ ~last.err
        /\ Len(coll) = 5
        /\ \A i \in 1..5 :
              coll[i].value = last.self.value + <<0, 3, 7, 10, 13>>[i]

\* C6: in a Chord, and in a Scale that does not have 8 tones, the first
\* tone carries the root's spelling and every other tone the natural or
\* flat spelling of its value.
C6_OnlyFirstToneCorrected ==
    (BuiltChord \/ (BuiltScale /\ Len(coll) # 8)) =>
        /\ coll[1].name = last.self.name
        /\ \A i \in 2..Len(coll) :
              coll[i].name = ExpectedSpelling(coll[i].value % 12, FALSE)

\* C7 as stated: a Tone built from a Tone and an int override has the
\* source's name and the override as its value; without an override it has
\* the source's name and value.
C7_CopyWithOverride ==
    last.op = "tone" =>
        /\ ~last.err
        /\ tone.name = inp.t.name
        /\ tone.value = IF inp.given THEN inp.v ELSE inp.t.value

\* C7 as amended: a Tone built from a Tone has the source's name and the
\* source's value whether or not an int override is passed; the override
\* becomes the value only when the first argument is a name or an int.
C7_CopyIgnoresOverride ==
    /\ last.op = "tone" =>
          ~last.err /\ tone.name = inp.t.name /\ tone.value = inp.t.value
    /\ (last.op \in {"nameValue", "intValue"} /\ ~last.err) => tone.value = inp.v

C7_Witness ==
    /\ last.op = "tone"
    /\ inp.given
    /\ inp.v # inp.t.value
    /\ tone = inp.t

\* C8: a Tone built from an int v keeps v as its value and is spelled
\* natural if its pitch class has a natural spelling, else sharp with
\* prefer_sharp and flat without; getSharpened is value + 1 spelled natural
\* or sharp, getFlattened is value - 1 spelled natural or flat.
C8_FromValueSpelling ==
    /\ last.op = "value" =>
          /\ tone.value = last.num
          /\ tone.name = ExpectedSpelling(last.num % 12, last.flag)
    /\ last.op = "getSharpened" =>
          /\ res[1].value = last.self.value + 1
          /\ res[1].name = ExpectedSpelling((last.self.value + 1) % 12, TRUE)
    /\ last.op = "getFlattened" =>
          /\ res[1].value = last.self.value - 1
          /\ res[1].name = ExpectedSpelling((last.self.value - 1) % 12, FALSE)

C8_Witness ==
    /\ last.op = "getSharpened"
    /\ last.self.value < -1
    /\ Contains(res[1].name, "#")

\* C9: Tone(s) takes a final digit as the octave (else octave 0); if the
\* rest is a table name the Tone has that name and the value
\* table[name] + 12 * octave, and otherwise the construction raises and
\* produces no Tone.
C9_FromNameParsing ==
    last.op = "name" =>
        LET s == inp.s
            hasDigit == Len(s) > 0 /\ s[Len(s)] \in Digits
            octave == IF hasDigit THEN DigitValue[s[Len(s)]] ELSE 0
            prefix == IF hasDigit THEN SubSeq(s, 1, Len(s) - 1) ELSE s
        IN  IF prefix \in TableNames
               THEN /\ ~last.err
                    /\ tone.name = prefix
                    /\ tone.value = tones[prefix] + 12 * octave
               ELSE last.err /\ tone = NoTone

C9_Witness ==
    /\ last.op = "name"
    /\ inp.s = <<"C", "1", "0">>
    /\ last.err
    /\ tone = NoTone

C11_OctaveArithmetic ==
    /\ last.op = "getOctave" =>
          LET v == last.self.value
              o == last.ret
          IN  /\ 12 * o <= v /\ v < 12 * o + 12
              /\ v % 12 \in 0..11
              /\ v = o * 12 + (v % 12)
    /\ last.op = "setOctave" =>
          /\ 12 * last.num <= tone.value /\ tone.value < 12 * last.num + 12
          /\ tone.value % 12 = last.self.value % 12
          /\ tone.name = last.self.name

C11_Witness ==
    /\ last.op = "setOctave"
    /\ last.self.value > 12
    /\ last.num < 0
    /\ tone.value = -7

\* The name setLetter gives for letter l and accidental count d.
Spelled(l, d) ==
    IF d > 0 THEN Pad(<<l>>, "#", d)
    ELSE IF d < 0 THEN Pad(<<l>>, "b", -d)
    ELSE <<l>>

\* value mod 12 minus the natural pitch class of the new letter
RawDifference == (last.self.value % 12) - NaturalPc[last.letter]

\* C12 as stated: after setLetter(L) the name is L with d sharps (d > 0)
\* or -d flats (d < 0), d being the pitch-class difference wrapped into
\* (-6, 6]; so never six flats and never more than six accidentals.
C12_HalfOpenRange ==
    last.op = "setLetter" =>
        LET d == CHOOSE x \in -5..6 : (x - RawDifference) % 12 = 0
        IN  /\ tone.name = Spelled(last.letter, d)
            /\ Count(tone.name, "b") # 6
            /\ Len(tone.name) - 1 <= 6

\* C12 as amended: d is the difference wrapped into the closed range
\* [-6, 6], a difference of 6 or of -6 being left as it is; so a tritone is
\* six sharps when the value is above the letter and six flats when it is
\* below, and there are never more than six accidentals.
C12_ClosedRange ==
    last.op = "setLetter" =>
        LET d == CHOOSE x \in -6..6 :
                    /\ (x - RawDifference) % 12 = 0
                    /\ (RawDifference \in {-6, 6} => x = RawDifference)
        IN  /\ tone.name = Spelled(last.letter, d)
            /\ tone.value = last.self.value
            /\ Len(tone.name) - 1 <= 6

C12_Witness ==
    /\ last.op = "setLetter"
    /\ last.letter = "B"
    /\ RawDifference = -6
    /\ tone.name = <<"B", "b", "b", "b", "b", "b", "b">>

\* C13: generate on n steps returns n + 1 tones, the root's value first and
\* each next value one step above the one before; generate on m intervals
\* returns m tones at root.value + intervals[i] and adds no root of its own:
\* the root is there because every chord quality lists 0 first.
C13_GenerateValues ==
    last.op = "generate" =>
        IF inp.form = "scale"
           THEN LET steps == StepsOf(inp.pat)
                IN  /\ Len(coll) = Len(steps) + 1
                    /\ coll[1].value = last.self.value
                    /\ \A i \in 1..Len(steps) :
                          coll[i + 1].value = coll[i].value + steps[i]
           ELSE LET intervals == quality_intervals[inp.pat]
                IN  /\ Len(coll) = Len(intervals)
                    /\ \A i \in 1..Len(intervals) :
                          coll[i].value = last.self.value + intervals[i]
                    /\ intervals[1] = 0

C13_Witness ==
    /\ last.op = "generate"
    /\ inp.form = "chord"
    /\ inp.pat = "7b9b13"
    /\ Len(coll) = 7
    /\ coll[7].value = last.self.value + 20

\* C14: only setLetter and setOctave change the Tone they are called on;
\* every other method leaves the receiver's name and value as they were
\* and returns objects other than the receiver; building a Scale or a
\* Chord leaves the key Tone as it was, and no object of a collection is
\* the key or an object of another collection built from the same key.
C14_NoAliasing ==
    /\ last.op \notin {"init", "setLetter", "setOctave"} =>
          heap.objs[1] = last.self
    /\ \A i \in 1..Len(heap.rets) : heap.rets[i] # 1
    /\ \A c \in 1..Len(heap.colls) :
          /\ \A i \in 1..Len(heap.colls[c]) : heap.colls[c][i] # 1
          /\ \A d \in 1..Len(heap.colls) :
                c # d => Range(heap.colls[c]) \cap Range(heap.colls[d]) = {}

C14_Witness ==
    /\ last.op = "Scale"
    /\ inp.pat = "major"
    /\ Len(heap.colls) = 2
    /\ heap.objs[1].name = <<"F", "#">>
    /\ heap.objs[heap.colls[1][7]].name = <<"E", "#">>
    /\ heap.objs[heap.colls[2][7]].name = <<"E", "#">>

=============================================================================
